---- MODULE Spec2Model ----
(***************************************************************************)
(* e-notify: watch a process by pid and mail a notification once it ends.  *)
(*                                                                         *)
(* The model follows src/e_notify.py (command line entry, notify_target)   *)
(* and src/src/notify.py (notify, _send_mail, _wait_process,               *)
(* _format_mail).  The process table, the SMTP server and the password     *)
(* prompt are the environment: their answers are drawn with \E.            *)
(*                                                                         *)
(* Two ways into the lifecycle are modelled:                               *)
(*   entry = "e_notify" : the command `e_notify.py notify --pid ...`,      *)
(*                        which runs notify_target(args);                  *)
(*   entry = "notify"   : a caller that has run set_conf(config) and calls *)
(*                        src.notify.notify(args) itself.                  *)
(* In e_notify.py the name `notify` is bound to the MODULE src.notify      *)
(* (line 5), so the call `notify(args)` on line 34 raises TypeError; the   *)
(* function notify() is reachable only through the second entry.           *)
(***************************************************************************)
EXTENDS Integers, Sequences, FiniteSets, TLC

\* ------------------------------------------------------------------ bounds
MaxPolls == 3      \* polls that find the watched process still alive
MaxMeta == 2       \* distinct values of a process name / command line
MaxPass == 2       \* distinct passwords the user may type
MaxFileLen == 4    \* characters in a --destlist file
MaxTo == 2         \* addresses after --to
MaxPatLen == 2     \* characters in an --attach pattern
MaxConfVal == 2    \* distinct values of a configuration key
MaxRuns == 2       \* runs of the config command in a row

\* ------------------------------------------------------- program constants
MaxAttempts == 3   \* for _ in range(3)

None == "None"
Pid == "pid"       \* args.pid, the one watched process

ReturnValue == {"Success", "LoginError", "OtherError"}
Raised == "Raised" \* an exception left _send_mail instead of a ReturnValue

\* The steps of one SMTP session, in the order _send_mail performs them.
\* A session input names the first step that fails ("auth": the server
\* rejects the credentials, "login": any other failure of server.login).
SmtpFaults == {"none", "connect", "ehlo1", "starttls", "ehlo2",
               "auth", "login", "send_message"}

NoPass == 0        \* E_NOTIFY_PASS unset / `password` not yet assigned
Passwords == 1..MaxPass
Meta == 1..MaxMeta
Gone == 0          \* metadata of a process that no longer exists

\* Text is a sequence of one-character strings.
AddrChars == {"a", "b"}
NL == "\n"
CR == "\r"
FileChars == AddrChars \cup {NL, CR}
DefaultReceiver == <<"d">>   \* conf["defaults"]["receiver"]

\* The working directory: every path name that may exist in it, in the
\* order the directory lists them, and what each one is.
DirOrder == << <<"a">>, <<"b">>, <<"a", "b">>, <<"b", "a">> >>
FileNames == {DirOrder[i] : i \in 1..Len(DirOrder)}
FileKinds == {"none", "file", "dir"}
PatChars == {"a", "b", "*"}

VARIABLES
  entry,          \* "e_notify" | "notify"
  args,           \* args.to, args.destlist, args.attachments (None or a value)
  fs,             \* the working directory: path name -> "none" | "file" | "dir"
  config,         \* the config command: its flags, conf in memory, conf.ini
  envPass,        \* os.environ.get("E_NOTIFY_PASS"): NoPass or a password
  owner,          \* "self" | "other": who owns the watched process
  procState,      \* "alive" | "dead": the process table's entry for Pid
  tblName,        \* process table: current name of Pid
  tblCmdline,     \* process table: current command line of Pid
  tblCreate,      \* process table: creation time of Pid
  fpc,            \* foreground: lifecycle state
  ferr,           \* foreground: the exception that ended it, or None
  attempts,       \* test-only calls of _send_mail made so far
  authentication_success,
  password,       \* the local variable `password` of notify()
  cpc,            \* background task (fork child): lifecycle state
  cerr,           \* background: the exception that ended it, or None
  snap,           \* the psutil.Process object's cached _name/_create_time/_cmdline
  alive,          \* _wait_process: the list `alive`
  batches,        \* every batch _wait_process has yielded, in order
  pending,        \* the batch the consumer loop is iterating over
  calls,          \* every call of _send_mail, in order
  email           \* the last message _format_mail returned, or NoMail

vars == <<entry, args, fs, config, envPass, owner, procState, tblName, tblCmdline,
          tblCreate, fpc, ferr, attempts, authentication_success, password,
          cpc, cerr, snap, alive, batches, pending, calls, email>>

envVars == <<entry, args, fs, config, envPass, owner>>
tblVars == <<procState, tblName, tblCmdline, tblCreate>>
fgVars == <<fpc, ferr, attempts, authentication_success, password>>
bgVars == <<cpc, cerr, snap, alive, batches, pending, email>>

\* --------------------------------------------------------- config_target
\* The keys of conf.ini in the order the two loops visit them (those
\* notify() reads: lines 142-144 and 48-50 of notify.py).
ConfKeys == <<"server", "port", "sender", "receiver">>
ConfKeySet == {ConfKeys[i] : i \in 1..Len(ConfKeys)}
ConfVals == 1..MaxConfVal
NoVal == 0         \* getattr(args, key) is None: the flag was not supplied
Stores == [ConfKeySet -> ConfVals]
Flags == [ConfKeySet -> ConfVals \cup {NoVal}]

RECURSIVE EditLoop(_, _, _)
\* The loops of config_target (lines 14-20) from key `keys[1]` on, over the
\* in-memory configuration `mem`.  For the first key whose flag was
\* supplied the value is assigned (line 17) and then line 18 evaluates
\* args.logger, an attribute the argparse namespace does not have:
\* AttributeError ends config_target there.
EditLoop(mem, keys, flags) ==
  IF keys = <<>> THEN [mem |-> mem, raised |-> FALSE]
  ELSE IF flags[Head(keys)] # NoVal
    THEN [mem |-> [mem EXCEPT ![Head(keys)] = flags[Head(keys)]],
          raised |-> TRUE]
  ELSE EditLoop(mem, Tail(keys), flags)

\* One run of `e_notify.py config --<key> <value> ...`: conf.read("conf.ini")
\* (line 39), config_target(args) (lines 12-23).  conf.ini is rewritten
\* (lines 22-23) only when the loops ran to their end.
config_target ==
  /\ config.runs < MaxRuns
  /\ LET r == EditLoop(config.file, ConfKeys, config.flags)
     IN  config' = [config EXCEPT
                      !.runs = @ + 1,
                      !.mem = r.mem,
                      !.file = IF r.raised THEN @ ELSE r.mem,
                      !.err = IF r.raised THEN "AttributeError" ELSE None]
  /\ UNCHANGED <<entry, args, fs, envPass, owner>>
  /\ UNCHANGED <<procState, tblName, tblCmdline, tblCreate>>
  /\ UNCHANGED <<fpc, ferr, attempts, authentication_success, password>>
  /\ UNCHANGED <<cpc, cerr, snap, alive, batches, pending, email, calls>>

\* ---------------------------------------------------------- _format_mail
RECURSIVE Split(_, _)
\* text.split(sep): the fields between the separators; always at least one.
Split(text, sep) ==
  IF \A i \in 1..Len(text) : text[i] # sep
    THEN <<text>>
  ELSE LET i == CHOOSE k \in 1..Len(text) :
                  text[k] = sep /\ \A j \in 1..(k - 1) : text[j] # sep
       IN  <<SubSeq(text, 1, i - 1)>> \o Split(SubSeq(text, i + 1, Len(text)), sep)

RECURSIVE Join(_)
\* ", ".join(fields)
Join(fields) ==
  IF fields = <<>> THEN <<>>
  ELSE IF Len(fields) = 1 THEN fields[1]
  ELSE fields[1] \o <<",", " ">> \o Join(Tail(fields))

RECURSIVE Strip(_)
\* Leading and trailing blanks removed.
Strip(text) ==
  IF text = <<>> THEN text
  ELSE IF Head(text) = " " THEN Strip(Tail(text))
  ELSE IF text[Len(text)] = " " THEN Strip(SubSeq(text, 1, Len(text) - 1))
  ELSE text

RECURSIVE NonEmpty(_)
NonEmpty(fields) ==
  IF fields = <<>> THEN <<>>
  ELSE IF Head(fields) = <<>> THEN NonEmpty(Tail(fields))
  ELSE <<Head(fields)>> \o NonEmpty(Tail(fields))

\* The addresses the email package reads out of a To header value (what
\* EmailMessage["To"].addresses holds and smtplib.send_message sends to):
\* the comma-separated entries, blanks stripped, entries with no content
\* dropped.
Addresses(header) ==
  LET entries == Split(header, ",")
  IN  NonEmpty([i \in 1..Len(entries) |-> Strip(entries[i])])

\* email["To"] = value raises ValueError when the value holds a carriage
\* return or a line feed.
HeaderRejected(header) ==
  \E i \in 1..Len(header) : header[i] \in {NL, CR}

\* The value _format_mail assigns to email["To"] (lines 41-50).  An argument
\* that was not supplied (None in the code) has given = FALSE.
ToHeader_ToTestInverted(a) ==
  IF ~a.to.given THEN Join(a.to.list)
  ELSE IF a.destlist.given THEN Join(Split(a.destlist.text, NL))
  ELSE DefaultReceiver

ToHeader(a) ==
  IF a.to.given THEN Join(a.to.list)
  ELSE IF a.destlist.given THEN Join(Split(a.destlist.text, NL))
  ELSE DefaultReceiver

NoMail == [built |-> FALSE]

RECURSIVE fnmatch(_, _)
\* fnmatch.fnmatch(name, pat) for patterns of literal characters and "*".
fnmatch(name, pat) ==
  IF pat = <<>> THEN name = <<>>
  ELSE IF Head(pat) = "*"
    THEN \/ fnmatch(name, Tail(pat))
         \/ name # <<>> /\ fnmatch(Tail(name), pat)
  ELSE /\ name # <<>>
       /\ Head(name) = Head(pat)
       /\ fnmatch(Tail(name), Tail(pat))

\* glob.iglob(pat): the existing paths of the working directory that match.
iglob(pat) ==
  SelectSeq(DirOrder, LAMBDA n : fs[n] # "none" /\ fnmatch(n, pat))

\* os.path.isfile(path)
isfile(path) == fs[path] = "file"

\* Iterating a Python str yields its characters as one-character strings.
IterStr(str) == [i \in 1..Len(str) |-> <<str[i]>>]

RECURSIVE AttachmentParts(_)
\* The attachment loop (lines 58-86) over the sequence `paths` that
\* `for attach_path in args.attachments` iterates: each attach_path is
\* globbed, paths that are no regular file are skipped with a warning, and
\* one part per remaining file is added, named by its base name.
AttachmentParts(paths) ==
  IF paths = <<>> THEN <<>>
  ELSE SelectSeq(iglob(Head(paths)), isfile) \o AttachmentParts(Tail(paths))

\* What `for attach_path in args.attachments` iterates over: --attach is
\* declared type=str without nargs (e_notify.py lines 63-68), so
\* args.attachments is one string and the loop runs over its characters.
AttachPaths(a) == IterStr(a.attachments.pattern)

\* _format_mail(args, sender, subject, body) (lines 30-88): the early
\* return without attachments (lines 55-56), else the attachment loop.
_format_mail(a, subject, body) ==
  IF HeaderRejected(ToHeader(a))
    THEN NoMail
  ELSE [built |-> TRUE, To |-> ToHeader(a), subject |-> subject, body |-> body,
        parts |-> IF ~a.attachments.given THEN <<>>
                  ELSE AttachmentParts(AttachPaths(a))]

\* ------------------------------------------------------------ _send_mail
\* One call of _send_mail(mail, server, port, sender, password, ssl_context,
\* test_login) against a session whose first failing step is `fault`.
\* Only server.login sits inside the try block: a rejected login is
\* LoginError, any other login failure is OtherError; a failure of the
\* connection, of either ehlo, of starttls, or of send_message is not caught
\* and leaves the function as an exception.  With test_login set,
\* send_message is never called.
_send_mail_IgnoresTestLogin(fault, test_login) ==
  IF fault \in {"connect", "ehlo1", "starttls", "ehlo2"}
    THEN [ret |-> Raised, transmitted |-> FALSE]
  ELSE IF fault = "auth"
    THEN [ret |-> "LoginError", transmitted |-> FALSE]
  ELSE IF fault = "login"
    THEN [ret |-> "OtherError", transmitted |-> FALSE]
  ELSE IF fault = "send_message"
    THEN [ret |-> Raised, transmitted |-> FALSE]
  ELSE [ret |-> "Success", transmitted |-> TRUE]

_send_mail(fault, test_login) ==
  IF fault \in {"connect", "ehlo1", "starttls", "ehlo2"}
    THEN [ret |-> Raised, transmitted |-> FALSE]
  ELSE IF fault = "auth"
    THEN [ret |-> "LoginError", transmitted |-> FALSE]
  ELSE IF fault = "login"
    THEN [ret |-> "OtherError", transmitted |-> FALSE]
  ELSE IF test_login
    THEN [ret |-> "Success", transmitted |-> FALSE]
  ELSE IF fault = "send_message"
    THEN [ret |-> Raised, transmitted |-> FALSE]
  ELSE [ret |-> "Success", transmitted |-> TRUE]

\* The record kept of one call of _send_mail: its arguments, its outcome,
\* the lifecycle stage that made it, whether its password was asked for at
\* the prompt just before, and whether the watched process was alive at
\* that moment.
Call(test_login, fault, pw, stage, mail) ==
  LET r == _send_mail(fault, test_login)
  IN  [test_login |-> test_login, fault |-> fault, ret |-> r.ret,
       transmitted |-> r.transmitted, password |-> pw.password,
       prompted |-> pw.prompted, stage |-> stage,
       mail |-> mail, watchedAlive |-> (procState = "alive")]

\* --------------------------------------------------------- notify_target
\* os.kill(args.pid, 0): ProcessLookupError when no such process exists,
\* PermissionError when the process belongs to another user.
os_kill_0_NoLookupError ==
  IF procState = "alive" /\ owner = "other" THEN "PermissionError" ELSE "ok"

os_kill_0 ==
  IF procState # "alive" THEN "ProcessLookupError"
  ELSE IF owner = "other" THEN "PermissionError"
  ELSE "ok"

\* e_notify.notify_target(args).  ProcessLookupError is re-raised with a
\* message; PermissionError is not handled; otherwise `notify(args)` calls
\* the module object src.notify, which raises TypeError.
notify_target ==
  /\ entry = "e_notify"
  /\ fpc = "Validating"
  /\ LET probe == os_kill_0
     IN  IF probe = "ProcessLookupError"
           THEN fpc' = "ProcessNotFound" /\ ferr' = "ProcessLookupError"
         ELSE IF probe = "PermissionError"
           THEN fpc' = "Crashed" /\ ferr' = "PermissionError"
         ELSE fpc' = "Crashed" /\ ferr' = "TypeError"
  /\ UNCHANGED <<attempts, authentication_success, password>>
  /\ UNCHANGED <<envVars, tblVars, bgVars, calls>>

\* ------------------------------------------------------------- notify()
\* Where notify() goes after the test-only call number `made` has ended
\* with `ret` (lines 168-177): Success leaves the loop with
\* authentication_success set, OtherError is exit(0), LoginError goes round
\* again until range(3) is used up, and then `if not authentication_success`
\* prints, logs and calls exit(0).  An exception out of _send_mail is not
\* caught anywhere.
NextStage_NoExhaustedCheck(ret, made) ==
  IF ret = Raised THEN "Crashed"
  ELSE IF ret = "Success" THEN "Detaching"
  ELSE IF ret = "OtherError" THEN "FatalError"
  ELSE IF made = MaxAttempts THEN "Detaching"
  ELSE "Authenticating"

NextStage_OtherErrorRetried(ret, made) ==
  IF ret = Raised THEN "Crashed"
  ELSE IF ret = "Success" THEN "Detaching"
  ELSE IF made = MaxAttempts THEN "AuthFailed"
  ELSE "Authenticating"

NextStage_SuccessNotRecorded(ret, made) ==
  IF ret = Raised THEN "Crashed"
  ELSE IF ret = "OtherError" THEN "FatalError"
  ELSE IF made = MaxAttempts THEN "AuthFailed"
  ELSE "Authenticating"

NextStage_NoBreak(ret, made) ==
  IF ret = Raised THEN "Crashed"
  ELSE IF ret = "OtherError" THEN "FatalError"
  ELSE IF made = MaxAttempts
    THEN (IF authentication_success \/ ret = "Success"
            THEN "Detaching" ELSE "AuthFailed")
  ELSE "Authenticating"

NextStage(ret, made) ==
  IF ret = Raised THEN "Crashed"
  ELSE IF ret = "Success" THEN "Detaching"
  ELSE IF ret = "OtherError" THEN "FatalError"
  ELSE IF made = MaxAttempts THEN "AuthFailed"
  ELSE "Authenticating"

\* password = os.environ.get("E_NOTIFY_PASS"); if it is None,
\* password = getpass.getpass(...) (lines 154-156).  `typed` is what the
\* user would type at the prompt.
ResolvePassword_AlwaysPrompts(typed) ==
  [password |-> typed, prompted |-> TRUE]

ResolvePassword(typed) ==
  IF envPass # NoPass THEN [password |-> envPass, prompted |-> FALSE]
  ELSE [password |-> typed, prompted |-> TRUE]

\* One iteration of `for _ in range(3)` (lines 151-172) together with the
\* code that follows the loop when it ends (lines 174-177).  `typed` is
\* what the user types at the getpass prompt, used only when E_NOTIFY_PASS
\* is not set.
AuthAttempt(typed, fault) ==
  /\ entry = "notify"
  /\ fpc = "Authenticating"
  /\ attempts < MaxAttempts
  /\ LET pw == ResolvePassword(typed)
         c == Call(TRUE, fault, pw, "Authenticating", NoMail)
     IN  /\ password' = pw.password
         /\ calls' = Append(calls, c)
         /\ attempts' = attempts + 1
         /\ fpc' = NextStage(c.ret, attempts + 1)
         /\ ferr' = IF c.ret = Raised THEN "SMTPException" ELSE ferr
         /\ authentication_success' =
              (authentication_success \/ c.ret = "Success")
  /\ UNCHANGED <<envVars, tblVars, bgVars>>

ChildPid == 1      \* what os.fork() returns in the parent: the child's pid

\* `if pid == 0:` (lines 182-197): the process that got 0 from os.fork()
\* runs the watcher loop, the other one returns pid.
ForkBranch_Inverted(pid) == IF pid # 0 THEN "watch" ELSE "return"

ForkBranch(pid) == IF pid = 0 THEN "watch" ELSE "return"

\* pid = os.fork() (line 181): the parent (foreground) gets the child's
\* pid, the child (background) gets 0, and each takes its branch.  A
\* process that takes the watcher branch starts _wait_process; a foreground
\* that did so would be blocked in it ("Watching").
Detach ==
  /\ fpc = "Detaching"
  /\ fpc' = IF ForkBranch(ChildPid) = "return" THEN "Returned" ELSE "Watching"
  /\ cpc' = IF ForkBranch(0) = "watch" THEN "WatchStart" ELSE "Returned"
  /\ UNCHANGED <<ferr, attempts, authentication_success, password>>
  /\ UNCHANGED <<envVars, tblVars, cerr, snap, alive, batches, pending,
                 email, calls>>

\* ------------------------------------------------------ the process table
\* The watched process exits.  Its metadata is no longer available.
Terminate ==
  /\ procState = "alive"
  /\ procState' = "dead"
  /\ tblName' = Gone /\ tblCmdline' = Gone /\ tblCreate' = Gone
  /\ UNCHANGED <<envVars, fgVars, bgVars, calls>>

\* The watched process renames itself or rewrites its argument vector.
ChangeMeta ==
  /\ procState = "alive"
  /\ \/ \E n \in Meta \ {tblName} : tblName' = n /\ UNCHANGED tblCmdline
     \/ \E c \in Meta \ {tblCmdline} : tblCmdline' = c /\ UNCHANGED tblName
  /\ UNCHANGED <<procState, tblCreate>>
  /\ UNCHANGED <<envVars, fgVars, bgVars, calls>>

\* --------------------------------------------------------- _wait_process
NoSnap == [create |-> Gone, name |-> Gone, cmdline |-> Gone]

\* procs = psutil.Process(args.pid); alive = [procs] (lines 125-128).
\* psutil raises NoSuchProcess for a pid with no process; otherwise the new
\* object caches the creation time (_create_time).
ResolveProcess ==
  /\ cpc = "WatchStart"
  /\ IF procState # "alive"
       THEN /\ cpc' = "Crashed" /\ cerr' = "NoSuchProcess"
            /\ UNCHANGED <<snap, alive>>
       ELSE /\ cpc' = "Caching" /\ UNCHANGED cerr
            /\ snap' = [snap EXCEPT !.create = tblCreate]
            /\ alive' = <<Pid>>
  /\ UNCHANGED <<batches, pending, email>>
  /\ UNCHANGED <<envVars, tblVars, fgVars, calls>>

\* for proc in alive: proc.name(); proc._cmdline = " ".join(proc.cmdline())
\* (lines 131-133).  Both reads raise NoSuchProcess once the process is gone.
CacheMetadata ==
  /\ cpc = "Caching"
  /\ IF procState # "alive"
       THEN /\ cpc' = "Crashed" /\ cerr' = "NoSuchProcess"
            /\ UNCHANGED snap
       ELSE /\ cpc' = "Polling" /\ UNCHANGED cerr
            /\ snap' = [snap EXCEPT !.name = tblName, !.cmdline = tblCmdline]
  /\ UNCHANGED <<alive, batches, pending, email>>
  /\ UNCHANGED <<envVars, tblVars, fgVars, calls>>

\* psutil.wait_procs(alive, timeout=1): (gone, alive) after at most one
\* time unit.
wait_procs_KeepsEnded(procs) ==
  [gone  |-> IF procState = "alive" THEN <<>> ELSE procs,
   alive |-> procs]

wait_procs_Inverted(procs) ==
  [gone  |-> IF procState = "alive" THEN procs ELSE <<>>,
   alive |-> IF procState = "alive" THEN <<>> ELSE procs]

wait_procs_DropsEnded(procs) ==
  [gone  |-> <<>>,
   alive |-> IF procState = "alive" THEN procs ELSE <<>>]

wait_procs(procs) ==
  [gone  |-> IF procState = "alive" THEN <<>> ELSE procs,
   alive |-> IF procState = "alive" THEN procs ELSE <<>>]

\* What the consumer does once it has no snapshot left in its batch: it
\* resumes the generator, which tests `while len(alive) != 0`.
Resume(stillAlive) == IF Len(stillAlive) # 0 THEN "Polling" ELSE "Done"

\* One iteration of `while len(alive) != 0` (lines 135-137): one poll, then
\* the batch is yielded to the loop of notify() (line 183), whatever it holds.
Poll ==
  /\ cpc = "Polling"
  /\ Len(alive) # 0
  /\ procState = "alive" => Len(batches) < MaxPolls
  /\ LET w == wait_procs(alive)
     IN  /\ alive' = w.alive
         /\ batches' = Append(batches, w.gone)
         /\ pending' = w.gone
         /\ cpc' = IF w.gone # <<>> THEN "Notifying" ELSE Resume(w.alive)
  /\ UNCHANGED <<cerr, snap, email>>
  /\ UNCHANGED <<envVars, tblVars, fgVars, calls>>

\* The process fields of the mail body (lines 186-190): ended_proc._name,
\* ended_proc._create_time and ended_proc._cmdline, the attributes cached on
\* the Process object.
Body_ReadAtNotification ==
  [name |-> tblName, create |-> tblCreate, cmdline |-> tblCmdline]

Body ==
  [name |-> snap.name, create |-> snap.create, cmdline |-> snap.cmdline]

\* Whether the call of _send_mail on lines 192-194 ends the background
\* task: the value it returns is discarded, so only an exception does.
SendEnds_OnAnyFailure(ret) == ret # "Success"

SendEnds(ret) == ret = Raised

\* The body of `for ended_proc in ended_processes` (lines 184-194) for the
\* next snapshot of the batch: subject and body from the attributes cached
\* on the Process object, _format_mail, then _send_mail with test_login
\* unset.  The value _send_mail returns is not looked at.
Notify(fault) ==
  /\ cpc = "Notifying"
  /\ pending # <<>>
  /\ LET ended_proc == Head(pending)
         mail == _format_mail(args, ended_proc, Body)
         c == Call(FALSE, fault, [password |-> password, prompted |-> FALSE],
                   "Notifying", mail)
     IN  /\ email' = mail
         /\ IF ~mail.built
              THEN /\ cpc' = "Crashed" /\ cerr' = "ValueError"
                   /\ UNCHANGED <<calls, pending>>
            ELSE /\ calls' = Append(calls, c)
                 /\ IF SendEnds(c.ret)
                      THEN /\ cpc' = "Crashed" /\ cerr' = "SMTPException"
                           /\ UNCHANGED pending
                      ELSE /\ pending' = Tail(pending)
                           /\ UNCHANGED cerr
                           /\ cpc' = IF Tail(pending) # <<>> THEN "Notifying"
                                     ELSE Resume(alive)
  /\ UNCHANGED <<snap, alive, batches>>
  /\ UNCHANGED <<envVars, tblVars, fgVars>>

\* ------------------------------------------------------- specification
NoAttach == [given |-> FALSE, pattern |-> <<>>]

\* The notify command was run: the config command is not running.
NoConfigRun ==
  [flags |-> [k \in ConfKeySet |-> NoVal], old |-> [k \in ConfKeySet |-> 1],
   mem |-> [k \in ConfKeySet |-> 1], file |-> [k \in ConfKeySet |-> 1],
   runs |-> MaxRuns, err |-> None]
ArgsSet ==
  {[to |-> [given |-> FALSE, list |-> <<>>],
    destlist |-> [given |-> FALSE, text |-> <<>>],
    attachments |-> [given |-> TRUE, pattern |-> <<"a", "b">>]],
   [to |-> [given |-> TRUE, list |-> <<<<"a">>, <<"b">>>>],
    destlist |-> [given |-> FALSE, text |-> <<>>],
    attachments |-> NoAttach],
   [to |-> [given |-> FALSE, list |-> <<>>],
    destlist |-> [given |-> TRUE, text |-> <<"a", NL>>],
    attachments |-> NoAttach],
   [to |-> [given |-> FALSE, list |-> <<>>],
    destlist |-> [given |-> TRUE, text |-> <<"a", CR, NL>>],
    attachments |-> NoAttach]}

\* The working directory of the lifecycle runs: a file "a", a directory
\* "b" and a file "ab".
FsMain == [n \in FileNames |->
             IF n = <<"b">> THEN "dir"
             ELSE IF n = <<"b", "a">> THEN "none" ELSE "file"]

Init ==
  /\ entry \in {"e_notify", "notify"}
  /\ args \in ArgsSet
  /\ fs = FsMain
  /\ config = NoConfigRun
  /\ envPass \in {NoPass} \cup Passwords
  \* only os.kill in notify_target depends on the owner
  /\ owner \in IF entry = "e_notify" THEN {"self", "other"} ELSE {"self"}
  /\ procState \in {"alive", "dead"}
  /\ IF procState = "alive"
       THEN tblName \in Meta /\ tblCmdline \in Meta /\ tblCreate \in Meta
       ELSE tblName = Gone /\ tblCmdline = Gone /\ tblCreate = Gone
  /\ fpc = IF entry = "e_notify" THEN "Validating" ELSE "Authenticating"
  /\ ferr = None
  /\ attempts = 0
  /\ authentication_success = FALSE
  /\ password = NoPass
  /\ cpc = "NotStarted"
  /\ cerr = None
  /\ snap = NoSnap
  /\ alive = <<>>
  /\ batches = <<>>
  /\ pending = <<>>
  /\ calls = <<>>
  /\ email = NoMail

Next ==
  \/ notify_target
  \/ \E typed \in Passwords, fault \in SmtpFaults : AuthAttempt(typed, fault)
  \/ Detach
  \/ ResolveProcess
  \/ CacheMetadata
  \/ Poll
  \/ \E fault \in SmtpFaults : Notify(fault)
  \/ Terminate
  \/ ChangeMeta

Spec == Init /\ [][Next]_vars

\* The background task's steps run on their own once started, and fork
\* returns: weak fairness on each.  Nothing is assumed of the user at the
\* password prompt nor of the watched process.
FairSpec ==
  /\ Spec
  /\ WF_vars(Detach)
  /\ WF_vars(ResolveProcess)
  /\ WF_vars(CacheMetadata)
  /\ WF_vars(Poll)
  /\ WF_vars(\E fault \in SmtpFaults : Notify(fault))

\* ----------------------------------------- _format_mail on its own inputs
Addrs == {<<"a">>, <<"b">>, <<"a", "b">>}
ToLists == UNION {[1..n -> Addrs] : n \in 0..MaxTo}
Texts == UNION {[1..n -> FileChars] : n \in 0..MaxFileLen}

Patterns == UNION {[1..n -> PatChars] : n \in 1..MaxPatLen}
AllFs == [FileNames -> FileKinds]

\* --to and --destlist are mutually exclusive (add_mutually_exclusive_group).
\* Recipient arguments are drawn without --attach, --attach patterns with
\* the default receiver.
FormatArgs ==
  {[to |-> [given |-> FALSE, list |-> <<>>],
    destlist |-> [given |-> FALSE, text |-> <<>>],
    attachments |-> NoAttach]}
  \cup {[to |-> [given |-> TRUE, list |-> l],
         destlist |-> [given |-> FALSE, text |-> <<>>],
         attachments |-> NoAttach] : l \in ToLists}
  \cup {[to |-> [given |-> FALSE, list |-> <<>>],
         destlist |-> [given |-> TRUE, text |-> t],
         attachments |-> NoAttach] : t \in Texts}
  \cup {[to |-> [given |-> FALSE, list |-> <<>>],
         destlist |-> [given |-> FALSE, text |-> <<>>],
         attachments |-> [given |-> TRUE, pattern |-> p]] : p \in Patterns}

InitFormat ==
  /\ entry = "notify"
  /\ args \in FormatArgs
  /\ fs \in IF args.attachments.given THEN AllFs ELSE {FsMain}
  /\ config = NoConfigRun
  /\ envPass = NoPass
  /\ owner = "self"
  /\ procState = "dead"
  /\ tblName = Gone /\ tblCmdline = Gone /\ tblCreate = Gone
  /\ fpc = "Returned"
  /\ ferr = None
  /\ attempts = 0
  /\ authentication_success = FALSE
  /\ password = NoPass
  /\ cpc = "Formatting"
  /\ cerr = None
  /\ snap = NoSnap
  /\ alive = <<>>
  /\ batches = <<>>
  /\ pending = <<>>
  /\ calls = <<>>
  /\ email = NoMail

\* mail = _format_mail(args, sender_email, subject, body) (line 191).
FormatMail ==
  /\ cpc = "Formatting"
  /\ LET mail == _format_mail(args, Pid, Body)
     IN  /\ email' = mail
         /\ cpc' = IF mail.built THEN "Formatted" ELSE "Crashed"
         /\ cerr' = IF mail.built THEN cerr ELSE "ValueError"
  /\ UNCHANGED <<snap, alive, batches, pending>>
  /\ UNCHANGED <<envVars, tblVars, fgVars, calls>>

NextFormat == FormatMail

SpecFormat == InitFormat /\ [][NextFormat]_vars

\* ------------------------------------------- the config command on its own
\* Before the first run: any conf.ini, any flags.  `old` keeps the
\* conf.ini of that moment.
InitConfig ==
  /\ \E store \in Stores, flags \in Flags :
       config = [flags |-> flags, old |-> store, mem |-> store,
                 file |-> store, runs |-> 0, err |-> None]
  /\ entry = "config"
  /\ args = [to |-> [given |-> FALSE, list |-> <<>>],
             destlist |-> [given |-> FALSE, text |-> <<>>],
             attachments |-> NoAttach]
  /\ fs = FsMain
  /\ envPass = NoPass
  /\ owner = "self"
  /\ procState = "dead"
  /\ tblName = Gone /\ tblCmdline = Gone /\ tblCreate = Gone
  /\ fpc = "Config"
  /\ ferr = None
  /\ attempts = 0
  /\ authentication_success = FALSE
  /\ password = NoPass
  /\ cpc = "NotStarted"
  /\ cerr = None
  /\ snap = NoSnap
  /\ alive = <<>>
  /\ batches = <<>>
  /\ pending = <<>>
  /\ calls = <<>>
  /\ email = NoMail

NextConfig == config_target

SpecConfig == InitConfig /\ [][NextConfig]_vars

\* ---------------------------------------------------------- exit status
Running == 0 - 1   \* the foreground command has not ended

\* The exit status of the foreground command in lifecycle state `stage`
\* with `err` the exception that ended it: an uncaught exception
\* (e_notify.py line 32, or any error the code does not catch) ends Python
\* with a traceback and status 1; exit(0) on lines 172 and 177 of notify.py
\* gives 0; so does returning from notify() in the parent.
ExitStatus_ExhaustedNonZero(stage, err) ==
  IF err # None THEN 1
  ELSE IF stage = "AuthFailed" THEN 1
  ELSE IF stage \in {"FatalError", "Returned"} THEN 0
  ELSE Running

ExitStatus(stage, err) ==
  IF err # None THEN 1
  ELSE IF stage \in {"AuthFailed", "FatalError", "Returned"} THEN 0
  ELSE Running

\* ------------------------------------------------------------ properties
TestCalls == SelectSeq(calls, LAMBDA c : c.test_login)
LiveCalls == SelectSeq(calls, LAMBDA c : ~c.test_login)
Rets(cs) == [i \in 1..Len(cs) |-> cs[i].ret]
NoMailSent == \A i \in 1..Len(calls) : ~calls[i].transmitted
NotDetached == cpc = "NotStarted" /\ fpc # "Returned"

\* C1: notify() makes at most 3 test-only login attempts; after a LoginError
\* with fewer than 3 attempts made it is still authenticating (the next
\* attempt follows); when all 3 attempts returned LoginError the lifecycle
\* is in the terminal AuthFailed state, nothing was forked and no mail was
\* transmitted.
C1_BoundedRetryThenAuthFailed ==
  /\ attempts <= MaxAttempts
  /\ Len(TestCalls) = attempts
  /\ (/\ attempts \in 1..(MaxAttempts - 1)
      /\ calls[Len(calls)].test_login
      /\ calls[Len(calls)].ret = "LoginError")
     => (fpc = "Authenticating" /\ NotDetached)
  /\ (/\ Len(TestCalls) = MaxAttempts
      /\ \A i \in 1..MaxAttempts : TestCalls[i].ret = "LoginError")
     => (/\ fpc = "AuthFailed"
         /\ NotDetached
         /\ LiveCalls = <<>>
         /\ NoMailSent)

C1_Witness ==
  /\ fpc = "AuthFailed"
  /\ Rets(calls) = <<"LoginError", "LoginError", "LoginError">>

\* C2: a test-only attempt that returns OtherError is the last call of
\* _send_mail ever made: notify() is in the terminal FatalError state,
\* nothing was forked and no mail was transmitted.
C2_OtherErrorAbortsAtOnce ==
  \A i \in 1..Len(calls) :
    (calls[i].test_login /\ calls[i].ret = "OtherError")
      => (/\ i = Len(calls)
          /\ attempts = i
          /\ fpc = "FatalError"
          /\ NotDetached
          /\ NoMailSent)

C2_Witness ==
  /\ fpc = "FatalError"
  /\ Rets(calls) = <<"LoginError", "OtherError">>
  /\ attempts = 2

LoginLoginSuccess == Rets(TestCalls) = <<"LoginError", "LoginError", "Success">>
BackgroundEnded == cpc \in {"Done", "Crashed"}

\* C3 (as claimed): with outcomes LoginError, LoginError, Success the
\* lifecycle is not AuthFailed, goes on to detach, and once the watched
\* process (alive when the third attempt succeeded) has terminated and the
\* background task has ended, exactly one mail-send attempt was made.
C3_ExactlyOneSendAfterRetry ==
  (LoginLoginSuccess /\ TestCalls[MaxAttempts].watchedAlive)
    => (/\ fpc \in {"Detaching", "Returned"}
        /\ (procState = "dead" /\ BackgroundEnded) => Len(LiveCalls) = 1)

\* C3 (amended): with outcomes LoginError, LoginError, Success the
\* lifecycle is not AuthFailed and notify() is at the fork or past it; at
\* most one mail-send attempt is ever made, after the fork and after every
\* test-only call; when the background task has ended, exactly one attempt
\* was made unless the task ended before sending because the watched process
\* was already gone when the watcher read it (NoSuchProcess) or the message
\* could not be built (ValueError).
C3_OneSendUnlessWatcherOrBuildFails ==
  LoginLoginSuccess
    => (/\ fpc \in {"Detaching", "Returned"}
        /\ authentication_success
        /\ Len(LiveCalls) <= 1
        /\ LiveCalls # <<>>
             => (/\ fpc = "Returned" /\ cpc # "NotStarted"
                 /\ ~calls[Len(calls)].test_login
                 /\ calls[Len(calls)].stage = "Notifying")
        /\ BackgroundEnded
             => (Len(LiveCalls) = 1
                   <=> ~(cpc = "Crashed"
                         /\ cerr \in {"NoSuchProcess", "ValueError"})))

C3_Witness ==
  /\ LoginLoginSuccess
  /\ TestCalls[MaxAttempts].watchedAlive
  /\ cpc = "Done"
  /\ procState = "dead"
  /\ Len(LiveCalls) = 1
  /\ LiveCalls[1].transmitted

\* C4: when the pid has no live process at the moment notify_target
\* validates it, the command goes to ProcessNotFound; and in
\* ProcessNotFound no password was resolved, no authentication attempt was
\* made, nothing was forked and no mail was sent.
C4_DeadPidStopsAtValidation ==
  /\ [][(/\ entry = "e_notify" /\ fpc = "Validating"
         /\ procState = "dead" /\ fpc' # fpc)
          => fpc' = "ProcessNotFound"]_vars
  /\ [](fpc = "ProcessNotFound"
          => (/\ ferr = "ProcessLookupError"
              /\ password = NoPass
              /\ attempts = 0
              /\ calls = <<>>
              /\ NotDetached))

C4_Witness ==
  /\ entry = "e_notify"
  /\ fpc = "ProcessNotFound"
  /\ procState = "dead"

\* C5 (as claimed): every call of _send_mail ends by returning Success,
\* LoginError or OtherError; no failure leaves it as an exception.
C5_ClosedOutcomeSet ==
  \A i \in 1..Len(calls) : calls[i].ret \in ReturnValue

\* C6: a test-only call never transmits a message, nothing is transmitted
\* while notify() is authenticating or before the fork, and a transmitted
\* message comes from a call with test_login unset, made by the notifying
\* background task, whose login succeeded.
C6_TestOnlyNeverTransmits ==
  /\ \A i \in 1..Len(calls) :
       /\ (calls[i].test_login \/ calls[i].stage = "Authenticating")
            => ~calls[i].transmitted
       /\ calls[i].transmitted
            => (/\ ~calls[i].test_login
                /\ calls[i].stage = "Notifying"
                /\ calls[i].fault \notin {"connect", "ehlo1", "starttls",
                                          "ehlo2", "auth", "login"}
                /\ calls[i].ret = "Success")
  /\ (fpc = "Authenticating" \/ NotDetached) => NoMailSent

C6_Witness ==
  /\ Len(calls) = 2
  /\ calls[1].test_login /\ calls[1].ret = "Success" /\ ~calls[1].transmitted
  /\ ~calls[2].test_login /\ calls[2].transmitted

Last(q) == q[Len(q)]
NonEmptyBatches == {i \in 1..Len(batches) : batches[i] # <<>>}

\* C7 (as claimed): every batch the watcher yields is non-empty, so when
\* the watcher has stopped it has yielded exactly one batch, of one snapshot.
C7_OnlyNonEmptyBatches ==
  /\ \A i \in 1..Len(batches) : batches[i] # <<>>
  /\ cpc = "Done" => (Len(batches) = 1 /\ Len(batches[1]) = 1)

\* C7 (amended): the watcher yields one batch per poll, and the batch of a
\* poll is empty exactly when the watched process is still alive at that
\* poll; every batch before the last is empty, a non-empty batch holds
\* exactly the one watched process and empties the alive list, so that the
\* watcher stops right after it; no mail-send attempt is made for an empty
\* batch.
C7_OneNonEmptyBatchLast ==
  /\ [][batches' # batches
          => (/\ Len(batches') = Len(batches) + 1
              /\ Last(batches') = <<>> <=> procState = "alive")]_vars
  /\ [](/\ \A i \in 1..(Len(batches) - 1) : batches[i] = <<>>
        /\ \A i \in NonEmptyBatches : batches[i] = <<Pid>> /\ alive = <<>>
        /\ cpc = "Done" => Cardinality(NonEmptyBatches) = 1
        /\ Len(LiveCalls) <= Cardinality(NonEmptyBatches))

C7_Witness ==
  /\ cpc = "Done"
  /\ batches = << <<>>, <<>>, <<Pid>> >>
  /\ Len(LiveCalls) = 1

Table == [create |-> tblCreate, name |-> tblName, cmdline |-> tblCmdline]

\* C8: the name, creation time and command line of every notification body
\* are the values cached on the Process object; that cache is written only
\* before the first poll, while the process is alive, with the process
\* table's values of that moment, and is complete once polling starts; so
\* the body holds real watch-start values, never what the table holds after
\* the process has gone.
C8_BodyIsWatchStartSnapshot ==
  /\ [][snap' # snap
          => (/\ batches = <<>>
              /\ procState = "alive"
              /\ \A f \in DOMAIN snap :
                   snap'[f] # snap[f] => snap'[f] = Table[f])]_vars
  /\ [](/\ cpc \in {"Polling", "Notifying", "Done"}
             => \A f \in DOMAIN snap : snap[f] \in Meta
        /\ \A i \in 1..Len(calls) :
             ~calls[i].test_login
               => (/\ calls[i].mail.body = snap
                   /\ \A f \in DOMAIN snap : calls[i].mail.body[f] \in Meta))

C8_Witness ==
  /\ cpc = "Done"
  /\ Len(LiveCalls) = 1
  /\ LiveCalls[1].transmitted
  /\ LiveCalls[1].mail.body.name \in Meta
  /\ LiveCalls[1].mail.body.cmdline \in Meta
  /\ Table.name = Gone

\* C9 (as claimed): once the watched process is dead while the watcher is
\* polling, the watcher eventually stops with an empty alive list, the
\* process has appeared in exactly one yielded batch, and the background
\* task is Done having attempted a notification.
C9_WatcherEndsInDone ==
  (cpc = "Polling" /\ procState = "dead")
    ~> (/\ cpc = "Done"
        /\ alive = <<>>
        /\ Cardinality(NonEmptyBatches) = 1
        /\ Len(LiveCalls) = 1)

\* The lines of a text file: the runs of characters ended by a line feed,
\* and the unterminated run at the end of the file when there is one.
RECURSIVE LinesOf(_, _)
LinesOf(text, cur) ==
  IF text = <<>> THEN (IF cur = <<>> THEN <<>> ELSE <<cur>>)
  ELSE IF Head(text) = NL THEN <<cur>> \o LinesOf(Tail(text), <<>>)
  ELSE LinesOf(Tail(text), Append(cur, Head(text)))

AddressLines(text) == SelectSeq(LinesOf(text, <<>>), LAMBDA l : l # <<>>)

MatchedFiles(pat) == {n \in FileNames : fs[n] = "file" /\ fnmatch(n, pat)}

\* C11 (as claimed): for an --attach pattern that matches N regular files
\* (and M other paths), the built message holds exactly N attachment parts,
\* one per regular file the whole pattern matches.
C11_OnePartPerMatchedFile ==
  (cpc = "Formatted" /\ args.attachments.given)
    => (/\ Len(email.parts) = Cardinality(MatchedFiles(args.attachments.pattern))
        /\ \A n \in MatchedFiles(args.attachments.pattern) :
             \E i \in 1..Len(email.parts) : email.parts[i] = n)

\* C12 (as claimed): after the config command has run, conf.ini holds the
\* supplied value for every key whose flag was supplied and the value it
\* had before for every other key; a second identical run leaves conf.ini
\* as the first run left it.
C12_EditPersisted ==
  config.runs >= 1
    => \A k \in ConfKeySet :
         config.file[k] = IF config.flags[k] # NoVal THEN config.flags[k]
                          ELSE config.old[k]

\* C13: the fork step itself sends the foreground to Returned and starts
\* the background task, with no poll, message build or SMTP call in it; once
\* Returned the foreground takes no further step; polls, built messages and
\* live calls exist only once the background task has been started, and it
\* is started only after a test-only call that returned Success.
C13_ForegroundReturnsAtFork ==
  /\ [][(fpc = "Detaching" /\ fpc' # fpc)
          => (/\ fpc' = "Returned"
              /\ cpc' = "WatchStart"
              /\ UNCHANGED <<calls, batches, email, alive>>)]_vars
  /\ [][fpc = "Returned" => UNCHANGED fgVars]_vars
  /\ [](/\ cpc # "NotStarted"
             => (/\ fpc = "Returned"
                 /\ authentication_success
                 /\ Last(TestCalls).ret = "Success")
        /\ (batches # <<>> \/ LiveCalls # <<>> \/ email.built)
             => cpc # "NotStarted"
        /\ \A i \in 1..Len(calls) :
             ~calls[i].test_login => calls[i].stage = "Notifying")

C13_Witness ==
  /\ fpc = "Returned"
  /\ cpc = "Polling"
  /\ Len(batches) = 2
  /\ Len(calls) = 1

\* C14 (as claimed): the process-not-found path and the auth-exhausted path
\* both end the command with exit status 0 and no uncaught error.
C14_BothPathsExitZero ==
  fpc \in {"ProcessNotFound", "AuthFailed"}
    => (ferr = None /\ ExitStatus(fpc, ferr) = 0)

\* C14 (amended): the auth-exhausted path ends the command by exit(0), with
\* no uncaught error; the process-not-found path ends it by the uncaught
\* ProcessLookupError that notify_target raises, hence with exit status 1.
C14_ExhaustedExitsZeroNotFoundRaises ==
  /\ fpc = "AuthFailed"
       => (/\ ferr = None
           /\ ExitStatus(fpc, ferr) = 0
           /\ Rets(calls) = <<"LoginError", "LoginError", "LoginError">>)
  /\ fpc = "ProcessNotFound"
       => (/\ ferr = "ProcessLookupError"
           /\ ExitStatus(fpc, ferr) = 1
           /\ calls = <<>>)

C14_Witness ==
  /\ entry = "e_notify"
  /\ fpc = "ProcessNotFound"
  /\ ExitStatus(fpc, ferr) = 1

C16_LivePidAccepted ==
  [][(/\ entry = "e_notify" /\ fpc = "Validating"
      /\ procState = "alive" /\ fpc' # fpc)
       => fpc' = "Authenticating"]_vars

\* C17: every live send is made when the watched process is dead, has left
\* the alive list and has been yielded in a batch; no message is transmitted
\* while the process is alive or still in the alive list.
C17_NoPrematureNotification ==
  /\ \A i \in 1..Len(calls) :
       ~calls[i].test_login => ~calls[i].watchedAlive
  /\ (LiveCalls # <<>> \/ ~NoMailSent)
       => (/\ procState = "dead"
           /\ alive = <<>>
           /\ NonEmptyBatches # {})
  /\ cpc = "Notifying" => (procState = "dead" /\ pending = <<Pid>>)

C17_Witness ==
  /\ batches = << <<>>, <<Pid>> >>
  /\ Len(LiveCalls) = 1
  /\ LiveCalls[1].transmitted
  /\ ~LiveCalls[1].watchedAlive

\* C18 (as claimed): when the process was alive as authentication began and
\* authentication succeeded, then once the process has terminated and the
\* background task has ended, exactly one notification send attempt was
\* made, whenever the process terminated.
C18_NoLostNotification ==
  (/\ authentication_success
   /\ calls[1].watchedAlive
   /\ procState = "dead"
   /\ BackgroundEnded)
    => Len(LiveCalls) = 1

\* C18 (amended): at most one notification send attempt is ever made; a
\* process that terminates before the watcher has looked it up and cached
\* its metadata ends the background task with NoSuchProcess, without any
\* poll and without any send attempt; a process that terminates once the
\* watcher is polling leads to exactly one send attempt, provided the
\* message can be built.
C18_NotifiedOnceIfWatcherStarted ==
  /\ [](Len(LiveCalls) <= 1)
  /\ []((cpc = "Crashed" /\ cerr = "NoSuchProcess")
          => (LiveCalls = <<>> /\ batches = <<>> /\ procState = "dead"))
  /\ (/\ cpc = "Polling" /\ procState = "dead"
      /\ ~HeaderRejected(ToHeader(args)))
       ~> (Len(LiveCalls) = 1 /\ BackgroundEnded)

C18_Witness ==
  /\ cpc = "Crashed"
  /\ cerr = "NoSuchProcess"
  /\ authentication_success
  /\ calls[1].watchedAlive
  /\ snap.create # Gone

\* C19: when E_NOTIFY_PASS is set, every call of _send_mail uses that
\* password and none was preceded by the prompt; if every attempt is
\* rejected, the invocation is still authenticating until the third attempt
\* and in AuthFailed after it, having made exactly 3 attempts.
C19_EnvPasswordNeverPrompts ==
  envPass # NoPass
    => (/\ \A i \in 1..Len(calls) :
             calls[i].password = envPass /\ ~calls[i].prompted
        /\ password \in {NoPass, envPass}
        /\ (calls # <<>> /\ \A i \in 1..Len(calls) : calls[i].ret = "LoginError")
             => (/\ fpc = IF Len(calls) = MaxAttempts THEN "AuthFailed"
                          ELSE "Authenticating"
                 /\ Len(calls) <= MaxAttempts)
        /\ fpc = "AuthFailed" => Len(calls) = MaxAttempts)

C19_Witness ==
  /\ envPass = 1
  /\ fpc = "AuthFailed"
  /\ Len(calls) = MaxAttempts
  /\ \A i \in 1..Len(calls) : calls[i].password = 1 /\ ~calls[i].prompted

\* C20: a live send that returns LoginError or OtherError is the only live
\* send made for its snapshot, its snapshot leaves the batch like a
\* delivered one, and the background task goes on to Done, not to a failure
\* state.
C20_LiveSendFailureIgnored ==
  \A i \in 1..Len(calls) :
    (~calls[i].test_login /\ calls[i].ret \in {"LoginError", "OtherError"})
      => (/\ Len(LiveCalls) = 1
          /\ i = Len(calls)
          /\ pending = <<>>
          /\ cpc = "Done"
          /\ cerr = None
          /\ NoMailSent)

C20_Witness ==
  /\ cpc = "Done"
  /\ Len(LiveCalls) = 1
  /\ LiveCalls[1].ret = "OtherError"

====
